---- MODULE Spec2Model ----
(***************************************************************************)
(* Model of prep_uci_dataset.py: the movetext normalizer, the SAN -> UCI   *)
(* translator, the prefix generator with its board rendering, and the      *)
(* corpus driver.                                                          *)
(*                                                                         *)
(* A Python str is a sequence of one-character strings.  The rules engine  *)
(* the program delegates to (the `chess` package) is modelled by a small   *)
(* board game with the same interface and the same division of labour:     *)
(* parse_san resolves a position-dependent token against the legal moves   *)
(* of the current position, Move.uci / Move.from_uci encode and decode the *)
(* position-independent identifier, Board.push applies a move without      *)
(* checking it, and str(board) renders the piece placement only.           *)
(***************************************************************************)
EXTENDS Integers, Sequences, FiniteSets, TLC

VARIABLES
    pc,               \* where the function under study stands
    push_asserts,     \* the installed engine release asserts in Board.push
    movetext,         \* extract_uci_moves_from_movetext: its argument
    cleaned,          \*   the text between the re.sub calls
    move_tokens,      \*   line 29
    board,            \*   line 32
    uci_moves,        \*   line 33; generate_move_prefixes: its argument
    tok_i,            \*   position of the for loop of line 35
    min_moves,        \* generate_move_prefixes: its threshold argument
    prefix_i,         \*   loop variable i of line 73
    prefixes,         \*   line 68
    board_states,     \*   line 69
    input_dataset,    \* process_dataset: the corpus
    max_games,        \*   the cap, None when absent
    num_games,        \*   lines 90-92
    game_i,           \*   loop variable of line 96
    all_prefixes,     \*   line 87
    all_board_states, \*   line 88
    row_game,         \*   history: the index of the record each row came from
    visited           \*   history: the indices line 97 has fetched, in order

vars == <<pc, push_asserts, movetext, cleaned, move_tokens, board, uci_moves,
          tok_i, min_moves, prefix_i, prefixes, board_states, input_dataset, max_games,
          num_games, game_i, all_prefixes, all_board_states, row_game, visited>>

(***************************************************************************)
(* Characters and strings                                                  *)
(***************************************************************************)

\* \d of the regular expressions
IsDigit(c) == c \in {"0", "1", "2", "3", "4", "5", "6", "7", "8", "9"}

\* \s of the regular expressions, and the separators of str.split()
IsSpace(c) == c \in {" ", "\n"}

\* s[i:] of Python, with i a 1-based index
Tail_from(s, i) == SubSeq(s, i, Len(s))

\* s.startswith(p, i-1)
StartsWithAt(s, p, i) ==
    /\ i + Len(p) - 1 <= Len(s)
    /\ \A k \in 1..Len(p) : s[i + k - 1] = p[k]

\* first index >= i whose character is not c-like, Len(s)+1 when none
RECURSIVE SkipSpaces(_, _)
SkipSpaces(s, i) ==
    IF i <= Len(s) /\ IsSpace(s[i]) THEN SkipSpaces(s, i + 1) ELSE i

RECURSIVE SkipDigits(_, _)
SkipDigits(s, i) ==
    IF i <= Len(s) /\ IsDigit(s[i]) THEN SkipDigits(s, i + 1) ELSE i

\* ' '.join(parts)
RECURSIVE JoinSpace(_)
JoinSpace(parts) ==
    IF Len(parts) = 0 THEN <<>>
    ELSE IF Len(parts) = 1 THEN parts[1]
    ELSE parts[1] \o <<" ">> \o JoinSpace(Tail(parts))

\* s.split(): the maximal runs of non-whitespace, in order.  The m-th run
\* goes from the m-th index that starts one to the m-th index that ends one.
Split(s) ==
    LET index  == [k \in 1..Len(s) |-> k]
        starts == SelectSeq(index, LAMBDA k :
                      ~IsSpace(s[k]) /\ (k = 1 \/ IsSpace(s[k - 1])))
        ends   == SelectSeq(index, LAMBDA k :
                      ~IsSpace(s[k]) /\ (k = Len(s) \/ IsSpace(s[k + 1])))
    IN [m \in 1..Len(starts) |-> SubSeq(s, starts[m], ends[m])]

\* m.strip()
RECURSIVE RStrip(_)
RStrip(s) ==
    IF Len(s) > 0 /\ IsSpace(s[Len(s)]) THEN RStrip(SubSeq(s, 1, Len(s) - 1)) ELSE s

Strip(s) == RStrip(Tail_from(s, SkipSpaces(s, 1)))

\* SelectSeq with a fixed test: [x for x in seq if x]
NonEmpty(x) == Len(x) > 0

(***************************************************************************)
(* Movetext Normalizer: the three re.sub calls and the split               *)
(***************************************************************************)

\* the characters of s at the indices in kept, in order
KeepWhere(s, kept) ==
    LET indices == SelectSeq([k \in 1..Len(s) |-> k], LAMBDA k : k \in kept)
    IN [k \in 1..Len(indices) |-> s[indices[k]]]

\* re.sub(r'\{[^}]*\}', '', s).  Scanning from the left, a '{' that has a '}'
\* after it is removed together with everything up to the first such '}'.  So
\* the character at k goes exactly when a '}' stands at or after k and a '{'
\* stands at or before k with no '}' from it up to k.
SubBraces(s) ==
    LET opens  == { j \in 1..Len(s) : s[j] = "{" }
        closes == { j \in 1..Len(s) : s[j] = "}" }
        Removed(k) ==
            /\ \E j \in closes : j >= k
            /\ \E j \in opens : j <= k /\ \A m \in closes : ~(j <= m /\ m < k)
    IN KeepWhere(s, { k \in 1..Len(s) : ~Removed(k) })

\* MoveNumberEnd with the pattern ending in \s+ : a number at the very end of
\* the text, or glued to the move, is no longer a match
MoveNumberEnd_NeedsSpace(s, i) ==
    LET d == SkipDigits(s, i) IN
    IF d = i \/ d > Len(s) \/ s[d] # "." THEN i
    ELSE LET p2 == IF d + 1 <= Len(s) /\ s[d + 1] = "." THEN d + 2 ELSE d + 1
             p3 == IF p2 <= Len(s) /\ s[p2] = "." THEN p2 + 1 ELSE p2
         IN IF SkipSpaces(s, p3) = p3 THEN i ELSE SkipSpaces(s, p3)

\* where a match of \d+\.\.?\.?\s* starting at i ends (exclusive); i when none
MoveNumberEnd(s, i) ==
    LET d == SkipDigits(s, i) IN
    IF d = i \/ d > Len(s) \/ s[d] # "." THEN i
    ELSE LET p2 == IF d + 1 <= Len(s) /\ s[d + 1] = "." THEN d + 2 ELSE d + 1
             p3 == IF p2 <= Len(s) /\ s[p2] = "." THEN p2 + 1 ELSE p2
         IN SkipSpaces(s, p3)

\* re.sub(r'\d+\.\.?\.?\s*', '', s).  A match starts at the first digit of a
\* run of digits that a period follows, and ends before the next character
\* that is neither one of its periods nor whitespace, so matches never overlap.
SubMoveNumbers(s) ==
    LET starts == { j \in 1..Len(s) :
                      /\ IsDigit(s[j])
                      /\ (j = 1 \/ ~IsDigit(s[j - 1]))
                      /\ MoveNumberEnd(s, j) > j }
        Removed(k) == \E j \in starts : j <= k /\ k < MoveNumberEnd(s, j)
    IN KeepWhere(s, { k \in 1..Len(s) : ~Removed(k) })

\* the alternatives of (0-1|1-0|1/2-1/2)
ResultMarkers ==
    { <<"0", "-", "1">>, <<"1", "-", "0">>, <<"1", "/", "2", "-", "1", "/", "2">> }

\* \s*(0-1|1-0|1/2-1/2)\s*$ matches at i
ResultMatchesAt(s, i) ==
    LET j == SkipSpaces(s, i) IN
    \E m \in ResultMarkers :
        /\ StartsWithAt(s, m, j)
        /\ SkipSpaces(s, j + Len(m)) > Len(s)

\* re.sub(r'\s*(0-1|1-0|1/2-1/2)\s*$', '', s): the leftmost match runs to the end
SubResult(s) ==
    IF \E i \in 1..Len(s) : ResultMatchesAt(s, i)
    THEN LET i == CHOOSE i \in 1..Len(s) :
                    /\ ResultMatchesAt(s, i)
                    /\ \A k \in 1..(i - 1) : ~ResultMatchesAt(s, k)
         IN SubSeq(s, 1, i - 1)
    ELSE s

\* [m.strip() for m in cleaned.split() if m.strip()]
TokenList(s) ==
    LET parts == Split(s)
        kept  == SelectSeq(parts, LAMBDA m : NonEmpty(Strip(m)))
    IN [k \in 1..Len(kept) |-> Strip(kept[k])]

\* lines 20-29 as one function of the transcript
Normalize(text) == TokenList(SubResult(SubMoveNumbers(SubBraces(text))))

(***************************************************************************)
(* The rules engine behind `import chess`: one rank of squares a1..e1, a   *)
(* white king on the first and a black king on the last.  A king steps to  *)
(* a neighbouring empty square that is not next to the other king.         *)
(***************************************************************************)

Files == <<"a", "b", "c", "d", "e">>
Rank == "1"
Squares == 1..Len(Files)

\* chess.SQUARE_NAMES[q]
SquareName(q) == <<Files[q], Rank>>

\* chess.Board(): the standard initial position, White to move.  A king that
\* has been taken off the board stands on square 0.
InitialBoard == [wk |-> 1, bk |-> Len(Files), turn |-> "w"]

\* chess.Move.null()
NullMove == [from |-> 0, to |-> 0]

Dist(p, q) == IF p >= q THEN p - q ELSE q - p

\* board.legal_moves
LegalMoves(b) ==
    LET own   == IF b.turn = "w" THEN b.wk ELSE b.bk
        other == IF b.turn = "w" THEN b.bk ELSE b.wk
    IN IF own = 0 THEN {}
       ELSE { [from |-> own, to |-> q] : q \in
                { q \in Squares : /\ Dist(q, own) = 1
                                  /\ q # other
                                  /\ (other = 0 \/ Dist(q, other) > 1) } }

\* the tokens parse_san reads as a null move
NullSans ==
    { <<"-", "-">>, <<"Z", "0">>, <<"0", "0", "0", "0">>, <<"@", "@", "@", "@">> }

\* SAN_REGEX: the piece letter and the destination square
IsSanShape(san) ==
    /\ Len(san) = 3
    /\ san[1] = "K"
    /\ \E q \in Squares : SubSeq(san, 2, 3) = SquareName(q)

\* board.parse_san(san): the legal move the token names in this position, a null
\* move for a null-move token, and otherwise an exception (all are ValueErrors)
parse_san(b, san) ==
    IF IsSanShape(san)
    THEN LET q     == CHOOSE q \in Squares : SubSeq(san, 2, 3) = SquareName(q)
             found == { m \in LegalMoves(b) : m.to = q }
         IN IF found = {}
            THEN [raised |-> TRUE, exc |-> "IllegalMoveError", move |-> NullMove]
            ELSE [raised |-> FALSE, exc |-> "", move |-> CHOOSE m \in found : TRUE]
    ELSE IF san \in NullSans
    THEN [raised |-> FALSE, exc |-> "", move |-> NullMove]
    ELSE [raised |-> TRUE, exc |-> "InvalidMoveError", move |-> NullMove]

\* move.uci()
uci(move) ==
    IF move = NullMove THEN <<"0", "0", "0", "0">>
    ELSE SquareName(move.from) \o SquareName(move.to)

\* chess.Move.from_uci(s)
from_uci(s) ==
    IF s = <<"0", "0", "0", "0">>
    THEN [raised |-> FALSE, exc |-> "", move |-> NullMove]
    ELSE IF /\ Len(s) = 4
            /\ \E p \in Squares : SubSeq(s, 1, 2) = SquareName(p)
            /\ \E q \in Squares : SubSeq(s, 3, 4) = SquareName(q)
            /\ SubSeq(s, 1, 2) # SubSeq(s, 3, 4)
    THEN [raised |-> FALSE, exc |-> "",
          move |-> [from |-> CHOOSE p \in Squares : SubSeq(s, 1, 2) = SquareName(p),
                    to   |-> CHOOSE q \in Squares : SubSeq(s, 3, 4) = SquareName(q)]]
    ELSE [raised |-> TRUE, exc |-> "InvalidMoveError", move |-> NullMove]

Flip(turn) == IF turn = "w" THEN "b" ELSE "w"

\* board.push(move): no legality check.  The piece standing on the origin goes
\* to the destination and replaces what stood there; a null move only passes
\* the turn.  With no piece on the origin the engine's releases differ: the
\* recent ones fail an assertion (asserts), the older ones clear the
\* destination and carry on.
push(b, move, asserts) ==
    IF move = NullMove
    THEN [raised |-> FALSE, exc |-> "", board |-> [b EXCEPT !.turn = Flip(@)]]
    ELSE IF b.wk = move.from
    THEN [raised |-> FALSE, exc |-> "",
          board |-> [wk   |-> move.to,
                     bk   |-> IF b.bk = move.to THEN 0 ELSE b.bk,
                     turn |-> Flip(b.turn)]]
    ELSE IF b.bk = move.from
    THEN [raised |-> FALSE, exc |-> "",
          board |-> [wk   |-> IF b.wk = move.to THEN 0 ELSE b.wk,
                     bk   |-> move.to,
                     turn |-> Flip(b.turn)]]
    ELSE IF asserts
    THEN [raised |-> TRUE, exc |-> "AssertionError", board |-> b]
    ELSE [raised |-> FALSE, exc |-> "",
          board |-> [wk   |-> IF b.wk = move.to THEN 0 ELSE b.wk,
                     bk   |-> IF b.bk = move.to THEN 0 ELSE b.bk,
                     turn |-> Flip(b.turn)]]

\* str(board): the piece placement, squares separated by single spaces; the
\* side to move is not part of it
PieceAt(b, q) ==
    IF b.wk = q THEN "K" ELSE IF b.bk = q THEN "k" ELSE "."

str(b) == JoinSpace([q \in Squares |-> <<PieceAt(b, q)>>])

(***************************************************************************)
(* extract_uci_moves_from_movetext                                         *)
(***************************************************************************)

\* the except clause of lines 40 and 57
Caught(exc) == exc \in {"InvalidMoveError", "IllegalMoveError", "ValueError"}

\* TranslateToken with `continue` for `break`: a rejected token is skipped
TranslateToken_Skip(b, moves, san, asserts) ==
    LET p == parse_san(b, san) IN
    IF p.raised
    THEN [outcome |-> "next", board |-> b, uci_moves |-> moves]
    ELSE [outcome |-> "next",
          board |-> push(b, p.move, asserts).board,
          uci_moves |-> Append(moves, uci(p.move))]

\* the loop body, lines 36-42, on one token: "next" carries on with the move
\* appended and applied, "break" leaves the loop, "except" is an exception the
\* inner clause does not catch (the outer one of line 45 returns [])
TranslateToken(b, moves, san, asserts) ==
    LET p == parse_san(b, san) IN
    IF p.raised
    THEN [outcome |-> IF Caught(p.exc) THEN "break" ELSE "except",
          board |-> b, uci_moves |-> moves]
    ELSE LET q == push(b, p.move, asserts) IN
         IF q.raised
         THEN [outcome |-> IF Caught(q.exc) THEN "break" ELSE "except",
               board |-> b, uci_moves |-> Append(moves, uci(p.move))]
         ELSE [outcome |-> "next",
               board |-> q.board, uci_moves |-> Append(moves, uci(p.move))]

\* lines 32-47 from token k on
RECURSIVE TranslateFrom(_, _, _, _, _)
TranslateFrom(tokens, k, b, moves, asserts) ==
    IF k > Len(tokens) THEN [board |-> b, uci_moves |-> moves]
    ELSE LET r == TranslateToken(b, moves, tokens[k], asserts) IN
         IF r.outcome = "break" THEN [board |-> r.board, uci_moves |-> r.uci_moves]
         ELSE IF r.outcome = "except" THEN [board |-> r.board, uci_moves |-> <<>>]
         ELSE TranslateFrom(tokens, k + 1, r.board, r.uci_moves, asserts)

\* the function as the driver calls it
extract_uci_moves_from_movetext(text, asserts) ==
    TranslateFrom(Normalize(text), 1, InitialBoard, <<>>, asserts).uci_moves

(***************************************************************************)
(* get_board_ascii and generate_move_prefixes                              *)
(***************************************************************************)

\* lines 53-60 from move k on: "fallback" is the return of line 59, "final"
\* the return of line 60, "raise" an exception line 57 does not catch
RECURSIVE BoardAsciiFrom(_, _, _, _)
BoardAsciiFrom(moves, k, b, asserts) ==
    IF k > Len(moves) THEN [via |-> "final", raised |-> FALSE, text |-> str(b)]
    ELSE LET d == from_uci(moves[k]) IN
         IF d.raised
         THEN IF Caught(d.exc)
              THEN [via |-> "fallback", raised |-> FALSE, text |-> str(InitialBoard)]
              ELSE [via |-> "raise", raised |-> TRUE, text |-> <<>>]
         ELSE LET q == push(b, d.move, asserts) IN
              IF q.raised
              THEN IF Caught(q.exc)
                   THEN [via |-> "fallback", raised |-> FALSE, text |-> str(InitialBoard)]
                   ELSE [via |-> "raise", raised |-> TRUE, text |-> <<>>]
              ELSE BoardAsciiFrom(moves, k + 1, q.board, asserts)

\* get_board_ascii with the loop over uci_moves[:-1]: the last move is left out
get_board_ascii_DropsLast(moves, asserts) ==
    BoardAsciiFrom(SubSeq(moves, 1, Len(moves) - 1), 1, InitialBoard, asserts)

get_board_ascii(moves, asserts) == BoardAsciiFrom(moves, 1, InitialBoard, asserts)

\* start_idx with "more than min_moves" for "at least min_moves"
StartIdx_Plus1(threshold) == IF threshold >= 1 THEN threshold + 1 ELSE 1

\* start_idx with the threshold dropped: every prefix from the first move on
StartIdx_One(threshold) == 1

\* start_idx of line 72: max(1, min_moves)
StartIdx(threshold) == IF threshold >= 1 THEN threshold ELSE 1

\* lines 74-79 for one i: the prefix string and its board
PrefixBody(moves, k, asserts) ==
    [prefix_str  |-> JoinSpace(SubSeq(moves, 1, k)),
     board_ascii |-> get_board_ascii(SubSeq(moves, 1, k), asserts)]

\* the loop of lines 73-80 from i = k on
RECURSIVE PrefixLoop(_, _, _, _, _)
PrefixLoop(moves, k, strs, boards, asserts) ==
    IF k > Len(moves)
    THEN [raised |-> FALSE, prefixes |-> strs, board_states |-> boards]
    ELSE LET r == PrefixBody(moves, k, asserts) IN
         IF r.board_ascii.raised
         THEN [raised |-> TRUE, prefixes |-> Append(strs, r.prefix_str),
               board_states |-> boards]
         ELSE PrefixLoop(moves, k + 1, Append(strs, r.prefix_str),
                         Append(boards, r.board_ascii.text), asserts)

\* the function as the driver calls it
generate_move_prefixes(moves, threshold, asserts) ==
    PrefixLoop(moves, StartIdx(threshold), <<>>, <<>>, asserts)

\* min_moves=15 of line 63
DefaultMinMoves == 15

(***************************************************************************)
(* Transcripts in the corpus format of the docstring (line 16):            *)
(* "1. e4 { [%eval 0.24] [%clk 1:40:57] } 1... c5 { ... } 2. Nf3 ... 1-0"  *)
(***************************************************************************)

DigitChars == <<"0", "1", "2", "3", "4", "5", "6", "7", "8", "9">>

\* str(n) for n >= 0
RECURSIVE Decimal(_)
Decimal(n) ==
    IF n < 10 THEN <<DigitChars[n + 1]>>
    ELSE Decimal(n \div 10) \o <<DigitChars[(n % 10) + 1]>>

Annotation ==
    <<"{", " ", "[", "%", "e", "v", "a", "l", " ", "0", ".", "2", "]", " ", "}">>

\* the k-th ply as the corpus writes it: its move number, the token, and (for
\* White's plies) an annotation
PlyText(k, san) ==
    Decimal((k + 1) \div 2)
        \o (IF k % 2 = 1 THEN <<".">> ELSE <<".", ".", ".">>)
        \o <<" ">> \o san \o <<" ">>
        \o (IF k % 2 = 1 THEN Annotation \o <<" ">> ELSE <<>>)

RECURSIVE PliesText(_, _)
PliesText(sans, k) ==
    IF k > Len(sans) THEN <<>> ELSE PlyText(k, sans[k]) \o PliesText(sans, k + 1)

\* the transcript of a game: its plies, then its result
Transcript(sans, result) == PliesText(sans, 1) \o result

\* board.san(move)
san_of(move) == IF move = NullMove THEN <<"-", "-">> ELSE <<"K">> \o SquareName(move.to)

\* a game of n plies in which each side plays the legal move to the highest
\* square, as far as there is one
RECURSIVE PlayFrom(_, _)
PlayFrom(b, n) ==
    IF n = 0 \/ LegalMoves(b) = {} THEN <<>>
    ELSE LET m == CHOOSE m \in LegalMoves(b) :
                    \A o \in LegalMoves(b) : o.to <= m.to
         IN <<san_of(m)>> \o PlayFrom(push(b, m, TRUE).board, n - 1)

LegalGame(n) == PlayFrom(InitialBoard, n)

\* tokens changed at one ply
ReplaceAt(sans, k, san) == [j \in 1..Len(sans) |-> IF j = k THEN san ELSE sans[j]]

(***************************************************************************)
(* Inputs of the function: every text of up to MaxPieces lexical pieces,   *)
(* and every space-separated list of up to MaxTokens move tokens.          *)
(***************************************************************************)

MaxPieces == 3
MaxTokens == 4

Pieces ==
    { <<"1">>, <<".">>, <<" ">>, <<"x">>, <<"{">>, <<"}">> } \cup ResultMarkers

RECURSIVE PieceTexts(_)
PieceTexts(n) ==
    IF n = 0 THEN { <<>> }
    ELSE LET shorter == PieceTexts(n - 1)
         IN shorter \cup { t \o p : t \in shorter, p \in Pieces }

\* a token for every square, a null-move token, and one the engine cannot read
SanTokens ==
    { <<"K">> \o SquareName(q) : q \in Squares } \cup { <<"-", "-">>, <<"?", "?">> }

RECURSIVE TokenLists(_)
TokenLists(n) ==
    IF n = 0 THEN { <<>> }
    ELSE LET shorter == TokenLists(n - 1)
         IN shorter \cup { Append(t, san) : t \in shorter, san \in SanTokens }

\* two transcripts in the corpus format, one passing the turn at its third ply
FormattedSamples ==
    { Transcript(LegalGame(MaxTokens), <<"1", "-", "0">>),
      Transcript(ReplaceAt(LegalGame(MaxTokens), 3, <<"-", "-">>),
                 <<"1", "/", "2", "-", "1", "/", "2">>) }

ExtractInputs ==
    PieceTexts(MaxPieces)
        \cup { JoinSpace(t) : t \in TokenLists(MaxTokens) }
        \cup FormattedSamples

\* the variables the other functions own
extractIdle == <<min_moves, prefix_i, prefixes, board_states, input_dataset,
                 max_games, num_games, game_i, all_prefixes, all_board_states,
                 row_game, visited>>

InitExtract ==
    /\ pc = "l20"
    /\ push_asserts \in BOOLEAN
    /\ movetext \in ExtractInputs
    /\ cleaned = <<>>
    /\ move_tokens = <<>>
    /\ board = InitialBoard
    /\ uci_moves = <<>>
    /\ tok_i = 1
    /\ min_moves = 0
    /\ prefix_i = 0
    /\ prefixes = <<>>
    /\ board_states = <<>>
    /\ input_dataset = <<>>
    /\ max_games = 0
    /\ num_games = 0
    /\ game_i = 0
    /\ all_prefixes = <<>>
    /\ all_board_states = <<>>
    /\ row_game = <<>>
    /\ visited = <<>>

\* line 20
StripBraces ==
    /\ pc = "l20"
    /\ cleaned' = SubBraces(movetext)
    /\ pc' = "l23"
    /\ UNCHANGED <<push_asserts, movetext, move_tokens, board, uci_moves, tok_i>>
    /\ UNCHANGED extractIdle

\* line 23
StripMoveNumbers ==
    /\ pc = "l23"
    /\ cleaned' = SubMoveNumbers(cleaned)
    /\ pc' = "l26"
    /\ UNCHANGED <<push_asserts, movetext, move_tokens, board, uci_moves, tok_i>>
    /\ UNCHANGED extractIdle

\* line 26
StripResult ==
    /\ pc = "l26"
    /\ cleaned' = SubResult(cleaned)
    /\ pc' = "l29"
    /\ UNCHANGED <<push_asserts, movetext, move_tokens, board, uci_moves, tok_i>>
    /\ UNCHANGED extractIdle

\* lines 29-33
SplitTokens ==
    /\ pc = "l29"
    /\ move_tokens' = TokenList(cleaned)
    /\ board' = InitialBoard
    /\ uci_moves' = <<>>
    /\ tok_i' = 1
    /\ pc' = "l35"
    /\ UNCHANGED <<push_asserts, movetext, cleaned>>
    /\ UNCHANGED extractIdle

\* lines 35-39: a token the engine accepts (an exception the inner clause
\* does not catch ends the function with [] at line 47)
LoopToken ==
    /\ pc = "l35"
    /\ tok_i <= Len(move_tokens)
    /\ LET r == TranslateToken(board, uci_moves, move_tokens[tok_i], push_asserts) IN
        /\ r.outcome # "break"
        /\ board' = r.board
        /\ uci_moves' = IF r.outcome = "next" THEN r.uci_moves ELSE <<>>
        /\ tok_i' = tok_i + 1
        /\ pc' = IF r.outcome = "next" THEN "l35" ELSE "returned"
    /\ UNCHANGED <<push_asserts, movetext, cleaned, move_tokens>>
    /\ UNCHANGED extractIdle

\* lines 40-42, then line 44
LoopBreak ==
    /\ pc = "l35"
    /\ tok_i <= Len(move_tokens)
    /\ LET r == TranslateToken(board, uci_moves, move_tokens[tok_i], push_asserts) IN
        /\ r.outcome = "break"
        /\ board' = r.board
        /\ uci_moves' = r.uci_moves
    /\ pc' = "returned"
    /\ UNCHANGED <<push_asserts, movetext, cleaned, move_tokens, tok_i>>
    /\ UNCHANGED extractIdle

\* the loop runs out of tokens, then line 44
LoopEnd ==
    /\ pc = "l35"
    /\ tok_i > Len(move_tokens)
    /\ pc' = "returned"
    /\ UNCHANGED <<push_asserts, movetext, cleaned, move_tokens, board, uci_moves, tok_i>>
    /\ UNCHANGED extractIdle

NextExtract ==
    \/ StripBraces
    \/ StripMoveNumbers
    \/ StripResult
    \/ SplitTokens
    \/ LoopToken
    \/ LoopBreak
    \/ LoopEnd

SpecExtract == InitExtract /\ [][NextExtract]_vars

(***************************************************************************)
(* Properties of extract_uci_moves_from_movetext                           *)
(***************************************************************************)

\* the token list exists from line 29 on
Tokenized == pc \in {"l35", "returned"}

\* digits followed by one or more periods, and nothing else
IsMoveNumber(t) ==
    \E d \in 1..(Len(t) - 1) :
        /\ \A k \in 1..d : IsDigit(t[k])
        /\ \A k \in (d + 1)..Len(t) : t[k] = "."

\* making a move whose piece stands on its origin, or passing the turn
Make(b, move) == push(b, move, TRUE).board

\* the position after replaying the first k identifiers from the initial
\* position, each decoded and made in turn
RECURSIVE ReplayTo(_, _)
ReplayTo(moves, k) ==
    IF k = 0 THEN InitialBoard
    ELSE Make(ReplayTo(moves, k - 1), from_uci(moves[k]).move)

ReplayUci(moves) == ReplayTo(moves, Len(moves))

\* the position after the first k tokens, each read in the position before it
RECURSIVE PositionAfter(_, _)
PositionAfter(tokens, k) ==
    IF k = 0 THEN InitialBoard
    ELSE LET before == PositionAfter(tokens, k - 1)
         IN Make(before, parse_san(before, tokens[k]).move)

\* the engine reads the token as a move in this position
Accepts(b, san) == ~parse_san(b, san).raised

\* C4 as claimed: the token list holds no result marker, no move number and
\* no empty token
C4_NoMarkerNoNumber ==
    Tokenized =>
        \A k \in 1..Len(move_tokens) :
            /\ move_tokens[k] \notin ResultMarkers
            /\ ~IsMoveNumber(move_tokens[k])
            /\ Len(move_tokens[k]) > 0

\* the whitespace-separated words of the text as line 26 finds it
WordsBeforeResult == Split(SubMoveNumbers(SubBraces(movetext)))

\* a result marker is the last word of that text and no other word of it
MarkerOnlyLast ==
    /\ Len(WordsBeforeResult) > 0
    /\ WordsBeforeResult[Len(WordsBeforeResult)] \in ResultMarkers
    /\ \A k \in 1..(Len(WordsBeforeResult) - 1) : WordsBeforeResult[k] \notin ResultMarkers

\* C4 amended: the token list holds no move number and no empty token; line 26
\* removes one result marker, at the very end of the text, so the list holds no
\* result marker when the text had one as its last word only
C4_NoNumber_TrailingMarkerRemoved ==
    Tokenized =>
        /\ \A k \in 1..Len(move_tokens) :
            /\ ~IsMoveNumber(move_tokens[k])
            /\ Len(move_tokens[k]) > 0
        /\ MarkerOnlyLast =>
            /\ \A k \in 1..Len(move_tokens) : move_tokens[k] \notin ResultMarkers
            /\ move_tokens = SubSeq(WordsBeforeResult, 1, Len(WordsBeforeResult) - 1)

\* C4's case: a transcript with annotations, move numbers and a final result
\* has been normalized to its moves
C4_Witness ==
    /\ pc = "returned"
    /\ MarkerOnlyLast
    /\ \E k \in 1..Len(movetext) : movetext[k] = "{"
    /\ \E k \in 1..(Len(movetext) - 1) : IsDigit(movetext[k]) /\ movetext[k + 1] = "."
    /\ Len(move_tokens) = MaxTokens

\* C2 as claimed: at every point of the loop each identifier appended so far is
\* a legal move in the position its predecessors lead to from the initial
\* position, and the simulated board is the replay of the identifiers
C2_EveryMoveLegal ==
    Tokenized =>
        /\ \A k \in 1..Len(uci_moves) :
            /\ ~from_uci(uci_moves[k]).raised
            /\ from_uci(uci_moves[k]).move
                   \in LegalMoves(ReplayTo(uci_moves, k - 1))
        /\ board = ReplayUci(uci_moves)

\* the token reads as a move that is legal in this position
IsLegalToken(b, san) ==
    /\ Accepts(b, san)
    /\ parse_san(b, san).move \in LegalMoves(b)

\* the number of leading tokens each of which is a legal move where its
\* predecessors lead
LegalRun(tokens) ==
    CHOOSE n \in 0..Len(tokens) :
        /\ \A k \in 1..n : IsLegalToken(PositionAfter(tokens, k - 1), tokens[k])
        /\ n < Len(tokens) =>
               ~IsLegalToken(PositionAfter(tokens, n), tokens[n + 1])

\* C3 as claimed: the function returns the translation of exactly the tokens
\* before the first one that is unparseable or not a legal move in the position
\* reached (all of them when there is none), whatever follows that token, and
\* raises nothing
C3_StopsAtFirstIllegal ==
    pc = "returned" =>
        /\ Len(uci_moves) = LegalRun(move_tokens)
        /\ \A k \in 1..Len(uci_moves) :
            uci_moves[k] =
                uci(parse_san(PositionAfter(move_tokens, k - 1), move_tokens[k]).move)

\* C3 with "the engine rejects the token" for "unparseable or not a
\* legal move": the function returns the translation of exactly the tokens
\* before the first one the engine rejects
C3_StopsAtFirstRejected ==
    pc = "returned" =>
        /\ Len(uci_moves) <= Len(move_tokens)
        /\ \A k \in 1..Len(uci_moves) :
            /\ Accepts(PositionAfter(move_tokens, k - 1), move_tokens[k])
            /\ uci_moves[k] =
                   uci(parse_san(PositionAfter(move_tokens, k - 1), move_tokens[k]).move)
        /\ Len(uci_moves) < Len(move_tokens) =>
               ~Accepts(PositionAfter(move_tokens, Len(uci_moves)),
                        move_tokens[Len(uci_moves) + 1])

\* C3's case: moves were translated, a token was rejected, and the token after
\* it would have been accepted in the position reached
C3_Witness ==
    /\ pc = "returned"
    /\ Len(uci_moves) >= 2
    /\ \A k \in 1..Len(uci_moves) : uci_moves[k] # uci(NullMove)
    /\ Len(uci_moves) + 2 <= Len(move_tokens)
    /\ IsSanShape(move_tokens[Len(uci_moves) + 2])
    /\ Accepts(board, move_tokens[Len(uci_moves) + 2])

(***************************************************************************)
(* generate_move_prefixes, one loop pass at a time.  Its inputs: every     *)
(* list of up to MaxMoves identifiers, well-formed or not, the lists the   *)
(* translator produces for legal games of up to ExtraPlies plies beyond    *)
(* the default threshold, and thresholds up to MaxThreshold besides the    *)
(* default.                                                                *)
(***************************************************************************)

MaxMoves == 3
MaxThreshold == 3
ExtraPlies == 5

\* a legal first move, a legal reply, a king's step of two squares, a move
\* from an empty square, a null move, and a malformed identifier
UciSamples ==
    { SquareName(1) \o SquareName(2),
      SquareName(Len(Files)) \o SquareName(Len(Files) - 1),
      SquareName(1) \o SquareName(3),
      SquareName(3) \o SquareName(4),
      <<"0", "0", "0", "0">>,
      <<"b", "1">> }

RECURSIVE UciLists(_)
UciLists(n) ==
    IF n = 0 THEN { <<>> }
    ELSE LET shorter == UciLists(n - 1)
         IN shorter \cup { Append(t, u) : t \in shorter, u \in UciSamples }

CanonicalLists ==
    { extract_uci_moves_from_movetext(JoinSpace(LegalGame(n)), TRUE) :
        n \in 0..(DefaultMinMoves + ExtraPlies) }

PrefixInputs == UciLists(MaxMoves) \cup CanonicalLists

Thresholds == (0..MaxThreshold) \cup {DefaultMinMoves}

InitPrefixes ==
    /\ pc = "l73"
    /\ push_asserts \in BOOLEAN
    /\ uci_moves \in PrefixInputs
    /\ min_moves \in Thresholds
    /\ prefix_i = StartIdx(min_moves)
    /\ prefixes = <<>>
    /\ board_states = <<>>
    /\ movetext = <<>>
    /\ cleaned = <<>>
    /\ move_tokens = <<>>
    /\ board = InitialBoard
    /\ tok_i = 0
    /\ input_dataset = <<>>
    /\ max_games = 0
    /\ num_games = 0
    /\ game_i = 0
    /\ all_prefixes = <<>>
    /\ all_board_states = <<>>
    /\ row_game = <<>>
    /\ visited = <<>>

prefixesIdle == <<push_asserts, movetext, cleaned, move_tokens, board, uci_moves,
                  tok_i, min_moves, input_dataset, max_games, num_games, game_i,
                  all_prefixes, all_board_states, row_game, visited>>

\* lines 73-80, one pass
PrefixPass ==
    /\ pc = "l73"
    /\ prefix_i <= Len(uci_moves)
    /\ LET r == PrefixBody(uci_moves, prefix_i, push_asserts) IN
        /\ ~r.board_ascii.raised
        /\ prefixes' = Append(prefixes, r.prefix_str)
        /\ board_states' = Append(board_states, r.board_ascii.text)
    /\ prefix_i' = prefix_i + 1
    /\ pc' = "l73"
    /\ UNCHANGED prefixesIdle

\* line 79 raises: the exception leaves the function
PrefixRaise ==
    /\ pc = "l73"
    /\ prefix_i <= Len(uci_moves)
    /\ LET r == PrefixBody(uci_moves, prefix_i, push_asserts) IN
        /\ r.board_ascii.raised
        /\ prefixes' = Append(prefixes, r.prefix_str)
    /\ pc' = "raised"
    /\ UNCHANGED <<prefix_i, board_states>>
    /\ UNCHANGED prefixesIdle

\* line 82
PrefixReturn ==
    /\ pc = "l73"
    /\ prefix_i > Len(uci_moves)
    /\ pc' = "returned"
    /\ UNCHANGED <<prefix_i, prefixes, board_states>>
    /\ UNCHANGED prefixesIdle

NextPrefixes ==
    \/ PrefixPass
    \/ PrefixRaise
    \/ PrefixReturn

SpecPrefixes == InitPrefixes /\ [][NextPrefixes]_vars

(***************************************************************************)
(* Properties of generate_move_prefixes and get_board_ascii                *)
(***************************************************************************)

RECURSIVE TotalLen(_)
TotalLen(parts) == IF Len(parts) = 0 THEN 0 ELSE Len(parts[1]) + TotalLen(Tail(parts))

\* str is exactly these moves with one space between neighbours
IsSingleSpaced(text, moves) ==
    /\ Split(text) = moves
    /\ Len(text) = TotalLen(moves) + (IF Len(moves) = 0 THEN 0 ELSE Len(moves) - 1)

\* the k-th prefix holds the first t+k-1 moves, and there are n-t+1 of them
ExactPrefixes(t) ==
    /\ Len(prefixes) = Len(uci_moves) - t + 1
    /\ \A k \in 1..Len(prefixes) :
        IsSingleSpaced(prefixes[k], SubSeq(uci_moves, 1, t + k - 1))

\* C1 as claimed: for every threshold t and every list of n >= t moves
C1_PrefixCount ==
    (pc = "returned" /\ Len(uci_moves) >= min_moves) => ExactPrefixes(min_moves)

\* C1 amended: for every threshold t >= 1 and every list of n >= t moves, the
\* function returns n-t+1 prefixes, the k-th the first t+k-1 moves joined by
\* single spaces; a threshold below 1 counts as 1
C1_PrefixCount_FlooredThreshold ==
    /\ (pc = "returned" /\ min_moves >= 1 /\ Len(uci_moves) >= min_moves)
           => ExactPrefixes(min_moves)
    /\ (pc = "returned" /\ min_moves < 1 /\ Len(uci_moves) >= 1)
           => ExactPrefixes(1)

\* C1's case: 20 plies under the default threshold have given 6 rows
C1_Witness ==
    /\ pc = "returned"
    /\ min_moves = DefaultMinMoves
    /\ Len(uci_moves) = DefaultMinMoves + ExtraPlies
    /\ Len(prefixes) = ExtraPlies + 1
    /\ Len(Split(prefixes[1])) = DefaultMinMoves
    /\ Split(prefixes[Len(prefixes)]) = uci_moves

\* some move of the list is malformed, or is not legal where the moves before
\* it lead (a null move passes the turn and is replayed as such)
FailsToReapply(moves) ==
    \E j \in 1..Len(moves) :
        \/ from_uci(moves[j]).raised
        \/ /\ from_uci(moves[j]).move # NullMove
           /\ from_uci(moves[j]).move
                  \notin LegalMoves(ReplayTo(moves, j - 1))

\* C10 as claimed: no rendering raises, and each is the initial position when
\* a move of its prefix fails to reapply and the position after its moves
\* otherwise
C10_FallbackOnAnyFailure ==
    /\ pc # "raised"
    /\ \A k \in 1..Len(board_states) :
        board_states[k] =
            IF FailsToReapply(Split(prefixes[k]))
            THEN str(InitialBoard)
            ELSE str(ReplayUci(Split(prefixes[k])))

(***************************************************************************)
(* process_dataset, one record at a time.  A corpus is up to MaxGames      *)
(* records drawn from: one without the field, one with None, one with "",  *)
(* and transcripts of a game one ply short of the threshold, one exactly   *)
(* at it, one ExtraPlies beyond it, that one with its 10th ply replaced by *)
(* a move illegal there, and one in which both sides pass once.            *)
(***************************************************************************)

MaxGames == 2

\* Python's None, which no str equals
None == <<"None">>

\* the literal of line 114
SkipBelow == 15

LongGame == LegalGame(DefaultMinMoves + ExtraPlies)

\* the ply of the end-to-end example that is made illegal
BadPly == 10

\* a square the side to move at BadPly cannot reach
IllegalToken == <<"K">> \o SquareName(3)

GameWithPasses ==
    SubSeq(LongGame, 1, 2) \o << <<"-", "-">>, <<"-", "-">> >>
        \o SubSeq(LongGame, 3, Len(LongGame))

Records ==
    { [site |-> <<"x">>],
      [site |-> <<"x">>, movetext |-> None],
      [site |-> <<"x">>, movetext |-> <<>>],
      [site |-> <<"x">>,
       movetext |-> Transcript(LegalGame(DefaultMinMoves - 1), <<"1", "-", "0">>)],
      [site |-> <<"x">>,
       movetext |-> Transcript(LegalGame(DefaultMinMoves), <<"0", "-", "1">>)],
      [site |-> <<"x">>,
       movetext |-> Transcript(LongGame, <<"1", "/", "2", "-", "1", "/", "2">>)],
      [site |-> <<"x">>,
       movetext |-> Transcript(ReplaceAt(LongGame, BadPly, IllegalToken),
                               <<"1", "-", "0">>)],
      [site |-> <<"x">>, movetext |-> Transcript(GameWithPasses, <<"0", "-", "1">>)] }

\* line 108 and line 118 on every transcript of Records, worked out once:
\* the functions are pure, so the driver's calls only look their results up
Movetexts == { r.movetext : r \in { r \in Records : "movetext" \in DOMAIN r } } \ {None}

TokenTable == [t \in Movetexts |-> Normalize(t)]

ExtractTable ==
    [t \in Movetexts, a \in BOOLEAN |-> extract_uci_moves_from_movetext(t, a)]

PrefixTable ==
    [t \in Movetexts, a \in BOOLEAN |->
        generate_move_prefixes(ExtractTable[t, a], DefaultMinMoves, a)]

RECURSIVE Corpora(_)
Corpora(n) ==
    IF n = 0 THEN { <<>> }
    ELSE LET shorter == Corpora(n - 1)
         IN shorter \cup { Append(c, r) : c \in shorter, r \in Records }

\* --max-games: absent (default=None, line 132), or an int
MaxGamesArgs ==
    { [given |-> FALSE, n |-> 0] }
        \cup { [given |-> TRUE, n |-> m] : m \in (0 - 1)..(MaxGames + 1) }

\* `if max_games:` of line 91: None and 0 are false
Truthy(arg) == arg.given /\ arg.n # 0

Min(a, b) == IF a <= b THEN a ELSE b

\* lines 90-92
NumGames(dataset, arg) ==
    IF Truthy(arg) THEN Min(Len(dataset), arg.n) ELSE Len(dataset)

\* GameOutcome without the test of line 100: the subscript of line 103 raises
GameOutcome_NoFieldTest(game, asserts) ==
    IF "movetext" \notin DOMAIN game THEN "KeyError"
    ELSE IF game.movetext = None THEN "none"
    ELSE LET moves == ExtractTable[game.movetext, asserts] IN
         IF Len(moves) = 0 THEN "no_moves"
         ELSE IF Len(moves) < SkipBelow THEN "short"
         ELSE "rows"

\* lines 100-115: which `continue` the record takes, or "rows" when it
\* reaches line 118
GameOutcome(game, asserts) ==
    IF "movetext" \notin DOMAIN game THEN "no_field"
    ELSE IF game.movetext = None THEN "none"
    ELSE LET moves == ExtractTable[game.movetext, asserts] IN
         IF Len(moves) = 0 THEN "no_moves"
         ELSE IF Len(moves) < SkipBelow THEN "short"
         ELSE "rows"

\* list.extend with the new rows put in front
Extend_InFront(acc, rows) == rows \o acc

\* list.extend of lines 119-120
Extend(acc, rows) == acc \o rows

Init ==
    /\ pc = "l87"
    /\ push_asserts \in BOOLEAN
    /\ input_dataset \in Corpora(MaxGames)
    /\ max_games \in MaxGamesArgs
    /\ num_games = 0
    /\ game_i = 0
    /\ all_prefixes = <<>>
    /\ all_board_states = <<>>
    /\ row_game = <<>>
    /\ visited = <<>>
    /\ movetext = <<>>
    /\ uci_moves = <<>>
    /\ cleaned = <<>>
    /\ move_tokens = <<>>
    /\ board = InitialBoard
    /\ tok_i = 0
    /\ min_moves = 0
    /\ prefix_i = 0
    /\ prefixes = <<>>
    /\ board_states = <<>>

driverIdle == <<push_asserts, input_dataset, max_games, cleaned, move_tokens, board,
                tok_i, min_moves, prefix_i, prefixes, board_states>>

\* the record line 97 fetches
Game == input_dataset[game_i + 1]

\* lines 87-94
Start ==
    /\ pc = "l87"
    /\ all_prefixes' = <<>>
    /\ all_board_states' = <<>>
    /\ num_games' = NumGames(input_dataset, max_games)
    /\ game_i' = 0
    /\ pc' = "l96"
    /\ UNCHANGED <<row_game, visited, movetext, uci_moves>>
    /\ UNCHANGED driverIdle

\* lines 97-101
SkipNoField ==
    /\ pc = "l96"
    /\ game_i < num_games
    /\ GameOutcome(Game, push_asserts) = "no_field"
    /\ visited' = Append(visited, game_i)
    /\ game_i' = game_i + 1
    /\ UNCHANGED <<pc, num_games, all_prefixes, all_board_states, row_game, movetext,
                   uci_moves>>
    /\ UNCHANGED driverIdle

\* lines 97-105
SkipNone ==
    /\ pc = "l96"
    /\ game_i < num_games
    /\ GameOutcome(Game, push_asserts) = "none"
    /\ visited' = Append(visited, game_i)
    /\ movetext' = Game.movetext
    /\ game_i' = game_i + 1
    /\ UNCHANGED <<pc, num_games, all_prefixes, all_board_states, row_game, uci_moves>>
    /\ UNCHANGED driverIdle

\* lines 97-111
SkipNoMoves ==
    /\ pc = "l96"
    /\ game_i < num_games
    /\ GameOutcome(Game, push_asserts) = "no_moves"
    /\ visited' = Append(visited, game_i)
    /\ movetext' = Game.movetext
    /\ uci_moves' = ExtractTable[Game.movetext, push_asserts]
    /\ game_i' = game_i + 1
    /\ UNCHANGED <<pc, num_games, all_prefixes, all_board_states, row_game>>
    /\ UNCHANGED driverIdle

\* lines 97-115
SkipShort ==
    /\ pc = "l96"
    /\ game_i < num_games
    /\ GameOutcome(Game, push_asserts) = "short"
    /\ visited' = Append(visited, game_i)
    /\ movetext' = Game.movetext
    /\ uci_moves' = ExtractTable[Game.movetext, push_asserts]
    /\ game_i' = game_i + 1
    /\ UNCHANGED <<pc, num_games, all_prefixes, all_board_states, row_game>>
    /\ UNCHANGED driverIdle

\* lines 97-120: the record's rows are appended, unless an exception escapes
\* (from the subscript of line 103 or from line 118), which ends the run
Accumulate ==
    /\ pc = "l96"
    /\ game_i < num_games
    /\ GameOutcome(Game, push_asserts) \notin {"no_field", "none", "no_moves", "short"}
    /\ visited' = Append(visited, game_i)
    /\ IF GameOutcome(Game, push_asserts) # "rows"
       THEN /\ pc' = "raised"
            /\ UNCHANGED <<game_i, all_prefixes, all_board_states, row_game, movetext,
                           uci_moves>>
       ELSE LET moves == ExtractTable[Game.movetext, push_asserts]
                g     == PrefixTable[Game.movetext, push_asserts]
            IN /\ movetext' = Game.movetext
               /\ uci_moves' = moves
               /\ IF g.raised
                  THEN /\ pc' = "raised"
                       /\ UNCHANGED <<game_i, all_prefixes, all_board_states, row_game>>
                  ELSE /\ all_prefixes' = Extend(all_prefixes, g.prefixes)
                       /\ all_board_states' = Extend(all_board_states, g.board_states)
                       /\ row_game' =
                              row_game \o [k \in 1..Len(g.prefixes) |-> game_i]
                       /\ game_i' = game_i + 1
                       /\ pc' = "l96"
    /\ UNCHANGED num_games
    /\ UNCHANGED driverIdle

\* lines 122-127: the loop is over and the table is built
Finish ==
    /\ pc = "l96"
    /\ game_i >= num_games
    /\ pc' = "done"
    /\ UNCHANGED <<num_games, game_i, all_prefixes, all_board_states, row_game,
                   visited, movetext, uci_moves>>
    /\ UNCHANGED driverIdle

Next ==
    \/ Start
    \/ SkipNoField
    \/ SkipNone
    \/ SkipNoMoves
    \/ SkipShort
    \/ Accumulate
    \/ Finish

Spec == Init /\ [][Next]_vars

(***************************************************************************)
(* Properties of process_dataset                                           *)
(***************************************************************************)

\* the indices 0..n-1 in order
Indices(n) == [k \in 1..n |-> k - 1]

\* the record of index j (from 0, as line 97 counts)
RecordAt(j) == input_dataset[j + 1]

\* no field, None, or the empty string
IsBlank(game) ==
    \/ "movetext" \notin DOMAIN game
    \/ game.movetext = None
    \/ game.movetext = <<>>

\* the number of moves of a row: its single spaces, plus one
NumMoves(prefix) == Cardinality({ k \in 1..Len(prefix) : prefix[k] = " " }) + 1

IsPrefixOf(short, long) ==
    Len(short) <= Len(long) /\ SubSeq(long, 1, Len(short)) = short

\* C5 as claimed: with a cap m >= 0 the loop fetches exactly the records of
\* index 0..min(N,m)-1, in order, and no row comes from an index >= m; with
\* no cap it fetches all N
C5_FirstMinRecords ==
    pc = "done" =>
        /\ (max_games.given /\ max_games.n >= 0) =>
            /\ visited = Indices(Min(Len(input_dataset), max_games.n))
            /\ \A k \in 1..Len(row_game) : row_game[k] < max_games.n
        /\ ~max_games.given => visited = Indices(Len(input_dataset))

\* C6: a step from a blank record moves on to the next record with both
\* output sequences as they were, and raises nothing
C6_BlankRecordSkipped ==
    [][(pc = "l96" /\ game_i < num_games /\ IsBlank(RecordAt(game_i)))
         => /\ pc' = "l96"
            /\ game_i' = game_i + 1
            /\ all_prefixes' = all_prefixes
            /\ all_board_states' = all_board_states]_vars

\* C6's case: rows had been accumulated, then a blank record was passed
C6_Witness ==
    /\ pc = "done"
    /\ Len(all_prefixes) > 0
    /\ \E j \in 1..Len(visited) :
        /\ IsBlank(RecordAt(visited[j]))
        /\ \A k \in 1..Len(row_game) : row_game[k] < visited[j]

\* the record has a transcript whose BadPly-th token is the first one the
\* engine rejects
RejectsAtBadPly(game) ==
    /\ ~IsBlank(game)
    /\ LET tokens == TokenTable[game.movetext] IN
        /\ Len(tokens) >= BadPly
        /\ \A k \in 1..(BadPly - 1) : Accepts(PositionAfter(tokens, k - 1), tokens[k])
        /\ ~Accepts(PositionAfter(tokens, BadPly - 1), tokens[BadPly])

RowsOrdered ==
    \A j, k \in 1..Len(all_prefixes) :
        j < k =>
            /\ row_game[j] <= row_game[k]
            /\ row_game[j] = row_game[k] =>
                /\ NumMoves(all_prefixes[j]) < NumMoves(all_prefixes[k])
                /\ IsPrefixOf(all_prefixes[j], all_prefixes[k])

\* C8: the rows are always in per-game then per-length order (so one game's
\* rows are contiguous), and every step keeps the rows there are, in place
C8_OrderedAppendOnly ==
    /\ []RowsOrdered
    /\ [][/\ IsPrefixOf(all_prefixes, all_prefixes')
          /\ IsPrefixOf(all_board_states, all_board_states')
          /\ IsPrefixOf(row_game, row_game')]_vars

\* C8's case: two games have given rows, the first of them more than one
C8_Witness ==
    /\ pc = "done"
    /\ \E j, k \in 1..Len(row_game) : row_game[j] < row_game[k]
    /\ Len(row_game) >= 2
    /\ row_game[1] = row_game[2]
    /\ NumMoves(all_prefixes[1]) = DefaultMinMoves

\* the translator's positions of each transcript of the corpus: entry k is the
\* position after its first k tokens
PositionTable ==
    [t \in Movetexts |->
        [k \in 0..Len(ExtractTable[t, TRUE]) |-> PositionAfter(TokenTable[t], k)]]

\* every prefix string the translated transcripts of the corpus can give
PrefixStrings ==
    UNION { { JoinSpace(SubSeq(ExtractTable[t, a], 1, n)) : n \in 1..Len(ExtractTable[t, a]) } :
                t \in Movetexts, a \in BOOLEAN }

\* for each of them, split back into its moves: whether some move fails to
\* reapply, the rendering of the position its replay leads to, and the return
\* get_board_ascii takes
ReplayTable ==
    [p \in PrefixStrings |->
        LET moves == Split(p) IN
        [n     |-> Len(moves),
         fails |-> FailsToReapply(moves),
         board |-> str(ReplayUci(moves)),
         via   |-> [a \in BOOLEAN |-> get_board_ascii(moves, a).via]]]

\* C9: the two sequences are equally long; each board is the rendering of the
\* position that replaying the moves of its prefix from the initial position
\* leads to, every move of the prefix being legal there or a passed turn; that
\* is the position the translator stood in after as many tokens of the row's
\* transcript; and the rendering was not the fallback of line 59
C9_BoardsRenderPrefixes ==
    /\ Len(all_prefixes) = Len(all_board_states)
    /\ Len(all_prefixes) = Len(row_game)
    /\ \A k \in 1..Len(all_prefixes) :
        /\ all_prefixes[k] \in PrefixStrings
        /\ ~ReplayTable[all_prefixes[k]].fails
        /\ k <= Len(all_board_states) =>
               /\ all_board_states[k] = ReplayTable[all_prefixes[k]].board
               /\ all_board_states[k] =
                      str(PositionTable[RecordAt(row_game[k]).movetext]
                                       [ReplayTable[all_prefixes[k]].n])
        /\ ReplayTable[all_prefixes[k]].via[push_asserts] = "final"

\* C9's case: rows of a game with passed turns, on a board other than the
\* initial one
C9_Witness ==
    /\ pc = "done"
    /\ \E k \in 1..Len(all_prefixes) :
        /\ uci(NullMove) \in { Split(all_prefixes[k])[m] : m \in 1..NumMoves(all_prefixes[k]) }
        /\ all_board_states[k] # str(InitialBoard)
    /\ \E k \in 1..Len(all_prefixes) :
        uci(NullMove) \notin { Split(all_prefixes[k])[m] : m \in 1..NumMoves(all_prefixes[k]) }

====
